---- MODULE Spec2Model ----
(***************************************************************************)
(* Venue booking and venue search of the eventia backend.                  *)
(*                                                                         *)
(* Spec       : concurrent POST /venues/:venueId/book requests             *)
(*              (VenueController.createBooking -> VenueService.            *)
(*              createBooking), one step per awaited database call.        *)
(* SpecSearch : VenueService.searchVenues, checkAvailability and           *)
(*              createBooking, each called once on stored bookings.        *)
(* SpecTiers  : the pricing of the four services of a request body.        *)
(* SpecVenue  : sequences of VenueService.createVenue and updateVenue.     *)
(* SpecTicket : concurrent bookTicket requests for one event.              *)
(* SpecRazorpay : users calling createOrder and then verifyPayment.        *)
(* SpecAuth   : AuthService.forgotPassword and resetPassword calls of one  *)
(*              user, interleaved, while time passes.                      *)
(*                                                                         *)
(* Numbers that may be NaN (a Date's time value, totalCost) and optional   *)
(* numbers (budget, capacity) are one-element sequences <<n>>; NaN and     *)
(* undefined are the empty sequence.  Times are milliseconds counted from  *)
(* midnight of 1 January.  Coordinates are in millidegrees.                *)
(***************************************************************************)
EXTENDS Integers, Sequences, FiniteSets, TLC

VARIABLES
    events,         \* prisma.event        : set of Event records
    venueBookings,  \* prisma.venueBooking : set of VenueBooking records
    payments,       \* prisma.payment      : set of Payment records
    pc,             \* per request: the await the handler is suspended at
    params,         \* per request: the parsed request (venueId, dates, services)
    local,          \* per request: serviceCosts and totalCost of the controller
    result,         \* per request: the HTTP response (status, error)
    query,          \* the last searchVenues / checkAvailability call
    answer,         \* what that call returned
    venueColl,      \* prisma.venue as createVenue and updateVenue write it
    ticketPrices,   \* event.ticketPrices of the one event: availableSeats by seat type
    ticketBookings, \* prisma.ticketBooking : set of TicketBooking records
    ticketPayments, \* prisma.payment of the ticket flows, in order of creation
    tpc,            \* per ticket request: the await its handler is suspended at
    tlocal,         \* per ticket request: its body, its locals and its response
    user,           \* prisma.user of the one user: password, resetToken, resetTokenExpiry
    now,            \* Date.now() in milliseconds since the server started
    uuids,          \* the number of tokens uuidv4() has generated
    mailbox,        \* the tokens of the reset links sent to the user
    apc,            \* per auth request: the await its service call is suspended at
    alocal          \* per auth request: its arguments, its locals and its result

vars == <<events, venueBookings, payments, pc, params, local, result, query, answer,
          venueColl, ticketPrices, ticketBookings, ticketPayments, tpc, tlocal,
          user, now, uuids, mailbox, apc, alocal>>

\* The state of the booking requests, and the state the other operations keep
bookingVars == <<events, venueBookings, payments, pc, params, local, result>>

ticketVars == <<ticketPrices, ticketBookings, ticketPayments, tpc, tlocal>>

authVars == <<user, now, uuids, mailbox, apc, alocal>>

aside == <<venueColl, ticketVars, authVars>>

----------------------------------------------------------------------------
(* Bounds of the model *)

NumRequests == 2
MaxPage == 2
MaxLimit == 3
MaxVenues == 2
MaxTokens == 2
MaxTicks == 3

Requests == 1..NumRequests

----------------------------------------------------------------------------
(* Numbers and dates *)

NaN == <<>>
Undefined == <<>>
Num(n) == <<n>>
IsNaN(x) == x = <<>>
Val(x) == x[1]

MsPerDay == 86400000

\* Math.ceil(a / b) for integers a and b > 0
Ceil(a, b) == -((-a) \div b)

isValidDate(d) == ~IsNaN(d)

\* new Date(x): a parsable date string gives its time value, anything else
\* (undefined, "abc") gives Invalid Date, whose getTime() is NaN.
Day(n) == Num(n * MsPerDay)
HalfDay(n) == Num((n * MsPerDay) \div 2)

----------------------------------------------------------------------------
(* Stored venues (prisma.venue), in database order.  Coordinates are in    *)
(* millidegrees; venue 3 lies in the corner of the 10 km bounding box      *)
(* around (60000, 25000) but 12.97 km away, venue 4 lies outside the box.  *)

Venues ==
    << [id |-> 1, pricePerDay |-> 100, capacity |-> 100, latitude |-> 60000, longitude |-> 25000],
       [id |-> 3, pricePerDay |-> 80,  capacity |-> 50,  latitude |-> 60080, longitude |-> 25170],
       [id |-> 2, pricePerDay |-> 250, capacity |-> 300, latitude |-> 60050, longitude |-> 25100],
       [id |-> 4, pricePerDay |-> 100, capacity |-> 200, latitude |-> 60500, longitude |-> 25000],
       [id |-> 5, pricePerDay |-> 300, capacity |-> 500, latitude |-> 60010, longitude |-> 24990] >>

VenueIds == {Venues[i].id : i \in DOMAIN Venues}

\* prisma.venue.findUnique({ where: { id } }): the venue in a set, {} for null
findUnique(id) == {Venues[i] : i \in {j \in DOMAIN Venues : Venues[j].id = id}}

VenueOf(id) == CHOOSE v \in findUnique(id) : TRUE

----------------------------------------------------------------------------
(* Service tiers *)

ServiceKeys == {"catering", "decoration", "photography", "music"}

SERVICE_TIERS ==
    [catering    |-> [none |-> 0, standard |-> 100, premium |-> 200],
     decoration  |-> [none |-> 0, standard |-> 50,  premium |-> 150],
     photography |-> [none |-> 0, standard |-> 75,  premium |-> 175],
     music       |-> [none |-> 0, standard |-> 60,  premium |-> 120]]

\* The tier labels requests carry
Labels == {"none", "standard", "premium", "None", "NONE", "Standard", "STANDARD",
           "Premium", "PREMIUM", "pReMiUm", "gold", "", "constructor"}

\* toLowerCase that returns the label as written
toLowerCaseAsWritten(s) == s

\* String.prototype.toLowerCase on the labels above
toLowerCase(s) ==
    CASE s \in {"None", "NONE"} -> "none"
      [] s \in {"Standard", "STANDARD"} -> "standard"
      [] s \in {"Premium", "PREMIUM", "pReMiUm"} -> "premium"
      [] OTHER -> s

\* A JavaScript value by its typeof; value is the number when it is one
JsNumber(n) == [typeof |-> "number", value |-> n]

\* Each tier table is an object literal: besides its own three keys, a
\* lookup finds the members it inherits from Object.prototype whose names are
\* in lower case.
ObjectPrototype ==
    [constructor |-> [typeof |-> "function", value |-> 0],
     __proto__   |-> [typeof |-> "object", value |-> 0]]

\* SERVICE_TIERS[type][service.toLowerCase()] || 0
mapServiceToValue(service, type) ==
    LET key == toLowerCase(service)
        tiers == SERVICE_TIERS[type]
    IN  IF key \in DOMAIN tiers
        THEN JsNumber(tiers[key])
        ELSE IF key \in DOMAIN ObjectPrototype
        THEN ObjectPrototype[key]
        ELSE JsNumber(0)

----------------------------------------------------------------------------
(* Inputs of the booking requests *)

\* req.params.venueId: venue 1, venue 2, or 9, the id of no venue
BookedVenueIds == {1, 2, 9}

\* req.body.startDate and endDate after new Date(...):
\*   1 Jan - 3 Jan; 3 Jan - 4 Jan 12:00, which starts the day the first ends;
\*   4 Jan 12:00 - 1 Jan, which ends before it starts;
\*   and a start that does not parse (Invalid Date).
RangeInputs ==
    { [startDate |-> Day(0), endDate |-> Day(2)],
      [startDate |-> Day(2), endDate |-> HalfDay(7)],
      [startDate |-> HalfDay(7), endDate |-> Day(0)],
      [startDate |-> NaN, endDate |-> Day(2)] }

AllStandard == [k \in ServiceKeys |-> "standard"]

Mixed == [catering |-> "Premium", decoration |-> "none",
          photography |-> "gold", music |-> "standard"]

NoMusic == [k \in ServiceKeys \ {"music"} |-> "standard"]

\* req.body.services sent as a string, as a multipart form sends it: the JSON
\* text of AllStandard, and a text that is no JSON
AllStandardText ==
    [string |-> "{\"catering\":\"standard\",\"decoration\":\"standard\",\"photography\":\"standard\",\"music\":\"standard\"}"]

NoJsonText == [string |-> "{catering:"]

ServiceInputs == {AllStandardText, Mixed, NoMusic, NoJsonText}

\* JSON.parse(text): <<the object>>, or << >> when it throws a SyntaxError
JSONparse(text) ==
    IF text = AllStandardText.string THEN <<AllStandard>> ELSE << >>

\* typeof services === 'string' ? JSON.parse(services) : services
parsedServices(services) ==
    IF DOMAIN services = {"string"} THEN JSONparse(services.string) ELSE <<services>>

BookingInputs ==
    { [venueId |-> v, startDate |-> d.startDate, endDate |-> d.endDate, services |-> s] :
        v \in BookedVenueIds, d \in RangeInputs, s \in ServiceInputs }

NoParams == [venueId |-> 9, startDate |-> NaN, endDate |-> NaN,
             services |-> NoMusic]

NoCosts == [k \in ServiceKeys |-> 0]

NoLocal == [serviceCosts |-> NoCosts, totalCost |-> NaN]

NoResult == [status |-> 0, error |-> "", logged |-> ""]

----------------------------------------------------------------------------
(* VenueService.checkAvailability *)

\* The filter with lt and gt, as it was before "Changed from lt to lte"
OverlapsStrict(b, venueId, startDate, endDate) ==
    /\ b.venueId = venueId
    /\ Val(b.startDate) < Val(endDate)
    /\ Val(b.endDate) > Val(startDate)

\* The filter without its venueId condition
OverlapsAnyVenue(b, venueId, startDate, endDate) ==
    /\ Val(b.startDate) <= Val(endDate)
    /\ Val(b.endDate) >= Val(startDate)

\* The filter with status: "CONFIRMED" added
OverlapsConfirmed(b, venueId, startDate, endDate) ==
    /\ b.venueId = venueId
    /\ b.status = "CONFIRMED"
    /\ Val(b.startDate) <= Val(endDate)
    /\ Val(b.endDate) >= Val(startDate)

\* where: { venueId, OR: [{ startDate: { lte: endDate }, endDate: { gte: startDate } }] }
Overlaps(b, venueId, startDate, endDate) ==
    /\ b.venueId = venueId
    /\ Val(b.startDate) <= Val(endDate)
    /\ Val(b.endDate) >= Val(startDate)

overlappingBookings(bookings, venueId, startDate, endDate) ==
    {b \in bookings : Overlaps(b, venueId, startDate, endDate)}

\* checkAvailability without its isValidDate test: no stored date compares
\* with an Invalid Date, so no booking is found
checkAvailabilityUnvalidated(bookings, venueId, startDate, endDate) ==
    IF IsNaN(startDate) \/ IsNaN(endDate)
    THEN "true"
    ELSE IF overlappingBookings(bookings, venueId, startDate, endDate) = {}
    THEN "true"
    ELSE "false"

\* "true" or "false" for the boolean it resolves to, "throws" when it rejects
\* with "Error checking venue availability: ..."
checkAvailability(bookings, venueId, startDate, endDate) ==
    IF ~isValidDate(startDate) \/ ~isValidDate(endDate)
    THEN "throws"
    ELSE IF overlappingBookings(bookings, venueId, startDate, endDate) = {}
    THEN "true"
    ELSE "false"

----------------------------------------------------------------------------
(* VenueController.createBooking: the cost of a booking *)

\* The check with "catering" in services as its only test
HasCatering(services) == "catering" \in DOMAIN services

\* "catering" in services && "decoration" in services && ...
HasAllServices(services) == ServiceKeys \subseteq DOMAIN services

\* The day count without the "+ 1"
DaysExclusive(startDate, endDate) ==
    IF IsNaN(startDate) \/ IsNaN(endDate)
    THEN NaN
    ELSE Num(Ceil(Val(endDate) - Val(startDate), MsPerDay))

\* Math.ceil((end.getTime() - start.getTime()) / (1000 * 60 * 60 * 24)) + 1
Days(startDate, endDate) ==
    IF IsNaN(startDate) \/ IsNaN(endDate)
    THEN NaN
    ELSE Num(Ceil(Val(endDate) - Val(startDate), MsPerDay) + 1)

ServiceCosts(services) == [k \in ServiceKeys |-> mapServiceToValue(services[k], k)]

\* serviceCosts.catering + ... + serviceCosts.music: the sum of four numbers;
\* with a member that is no number, + concatenates and the result is a string,
\* which Number(...) turns into NaN.
ServicesCost(costs) ==
    IF \A k \in ServiceKeys : costs[k].typeof = "number"
    THEN Num(costs["catering"].value + costs["decoration"].value
             + costs["photography"].value + costs["music"].value)
    ELSE NaN

\* Number(venueCost + servicesCost)
TotalCost(venue, startDate, endDate, costs) ==
    LET days == Days(startDate, endDate)
        servicesCost == ServicesCost(costs)
    IN  IF IsNaN(days) \/ IsNaN(servicesCost)
        THEN NaN
        ELSE Num(Val(days) * venue.pricePerDay + Val(servicesCost))

\* Number(totalCost); isNaN(...) || !Number.isFinite(...)
InvalidTotalCost(totalCost) == IsNaN(totalCost)

----------------------------------------------------------------------------
(* POST /venues/:venueId/book.  A request is suspended at the database     *)
(* call named by pc; the code between two awaits runs without interleaving.*)
(* The requests are authenticated (req.user is set) and carry no image.    *)

\* The handler answers: its locals are gone; the response (status and error
\* of the body) and the message given to logger.error stay.
Reply(r, status, error, logged) ==
    /\ pc' = [pc EXCEPT ![r] = "done"]
    /\ result' = [result EXCEPT ![r] =
                    [status |-> status, error |-> error, logged |-> logged]]
    /\ params' = [params EXCEPT ![r] = NoParams]
    /\ local' = [local EXCEPT ![r] = NoLocal]

\* An answer of the controller itself, which logs no error
Respond(r, status, error) == Reply(r, status, error, "")

\* 'error' in result: the service's error is logged and answered with 400
ServiceError(r, error) == Reply(r, 400, error, error)

\* catch (err): err.message is logged and the answer is 500 "Server error"
ServerError(r, message) == Reply(r, 500, "Server error", message)

\* The handler awaits its next call.
Await(r, call) ==
    /\ pc' = [pc EXCEPT ![r] = call]
    /\ UNCHANGED result

\* The controller up to its first await: parse the body, require the four
\* service keys, then call VenueService.getVenueById.  Requests are numbered
\* in their order of arrival.
Start(r) ==
    /\ pc[r] = "idle"
    /\ \A q \in Requests : q < r => pc[q] # "idle"
    /\ \E p \in BookingInputs :
        LET parsed == parsedServices(p.services)
        IN  IF parsed = << >>
            THEN ServerError(r, "Unexpected token c in JSON at position 1")
            ELSE IF ~HasAllServices(parsed[1])
            THEN Respond(r, 400, "Services must include catering, decoration, photography, and music")
            ELSE /\ Await(r, "getVenueById")
                 /\ params' = [params EXCEPT ![r] = [p EXCEPT !.services = parsed[1]]]
                 /\ UNCHANGED local
    /\ UNCHANGED <<events, venueBookings, payments, query, answer, aside>>

\* getVenueById resolves; the controller prices the booking and calls
\* VenueService.createBooking, which runs up to prisma.venueBooking.findMany
\* inside checkAvailability.  Or getVenueById rejects: it is the one database
\* call that is awaited outside VenueService.createBooking, so its rejection
\* reaches the catch block of the controller.
GetVenueById(r) ==
    /\ pc[r] = "getVenueById"
    /\ \E resolved \in BOOLEAN :
       LET p == params[r]
           found == findUnique(p.venueId)
       IN  IF ~resolved
           THEN ServerError(r, "Error fetching venue by ID")
           ELSE IF found = {}
           THEN Respond(r, 404, "Venue not found")
           ELSE LET venue == VenueOf(p.venueId)
                    costs == ServiceCosts(p.services)
                    totalCost == TotalCost(venue, p.startDate, p.endDate, costs)
                IN  IF InvalidTotalCost(totalCost)
                    THEN ServiceError(r, "Invalid totalCost provided. It must be a valid number.")
                    ELSE IF ~HasAllServices(costs)
                    THEN ServiceError(r, "Services must include catering, decoration, photography, and music")
                    ELSE IF ~isValidDate(p.startDate) \/ ~isValidDate(p.endDate)
                    THEN ServiceError(r, "Error creating booking.")
                    ELSE /\ Await(r, "findMany")
                         /\ local' = [local EXCEPT ![r] =
                                         [serviceCosts |-> [k \in ServiceKeys |-> costs[k].value],
                                          totalCost |-> totalCost]]
                         /\ UNCHANGED params
    /\ UNCHANGED <<events, venueBookings, payments, query, answer, aside>>

\* The availability check run after prisma.event.create
FindManyAfterEventCreate(r) ==
    /\ pc[r] = "findMany"
    /\ LET p == params[r]
           isAvailable == checkAvailability(venueBookings, p.venueId, p.startDate, p.endDate)
       IN  IF isAvailable = "throws"
           THEN ServiceError(r, "Error creating booking.")
           ELSE IF isAvailable = "false"
           THEN ServiceError(r, "Venue is not available for the selected time slot")
           ELSE /\ Await(r, "findUnique")
                /\ UNCHANGED <<params, local>>
    /\ events' = events \cup {[id |-> r, venueId |-> params[r].venueId,
                               date |-> params[r].startDate]}
    /\ UNCHANGED <<venueBookings, payments, query, answer, aside>>

\* findMany resolves: checkAvailability returns, and createBooking either
\* gives up or calls prisma.venue.findUnique.
FindMany(r) ==
    /\ pc[r] = "findMany"
    /\ LET p == params[r]
           isAvailable == checkAvailability(venueBookings, p.venueId, p.startDate, p.endDate)
       IN  IF isAvailable = "throws"
           THEN ServiceError(r, "Error creating booking.")
           ELSE IF isAvailable = "false"
           THEN ServiceError(r, "Venue is not available for the selected time slot")
           ELSE /\ Await(r, "findUnique")
                /\ UNCHANGED <<params, local>>
    /\ UNCHANGED <<events, venueBookings, payments, query, answer, aside>>

\* The venue lookup followed by prisma.event.create, the payment after it
FindUniqueThenEventCreate(r) ==
    /\ pc[r] = "findUnique"
    /\ IF findUnique(params[r].venueId) = {}
       THEN /\ ServiceError(r, "Venue not found")
            /\ UNCHANGED events
       ELSE /\ events' = events \cup {[id |-> r, venueId |-> params[r].venueId,
                                        date |-> params[r].startDate]}
            /\ Await(r, "simulatePayment")
            /\ UNCHANGED <<params, local>>
    /\ UNCHANGED <<venueBookings, payments, query, answer, aside>>

\* findUnique resolves; createBooking calls simulatePayment.
FindUnique(r) ==
    /\ pc[r] = "findUnique"
    /\ IF findUnique(params[r].venueId) = {}
       THEN ServiceError(r, "Venue not found")
       ELSE /\ Await(r, "simulatePayment")
            /\ UNCHANGED <<params, local>>
    /\ UNCHANGED <<events, venueBookings, payments, query, answer, aside>>

\* simulatePayment: waits a second and returns true
simulatePayment(amount) == TRUE

SimulatePayment(r) ==
    /\ pc[r] = "simulatePayment"
    /\ IF ~simulatePayment(local[r].totalCost)
       THEN ServiceError(r, "Payment failed. Booking not created.")
       ELSE /\ Await(r, "eventCreate")
            /\ UNCHANGED <<params, local>>
    /\ UNCHANGED <<events, venueBookings, payments, query, answer, aside>>

\* The records a request writes carry the request's number as their id.
NewEvent(r) ==
    [id |-> r, venueId |-> params[r].venueId, date |-> params[r].startDate]

NewBooking(r) ==
    [id |-> r, venueId |-> params[r].venueId, eventId |-> r,
     startDate |-> params[r].startDate, endDate |-> params[r].endDate,
     services |-> local[r].serviceCosts, totalCost |-> Val(local[r].totalCost),
     status |-> "CONFIRMED", paymentId |-> 0]

NewPayment(r) ==
    [id |-> r, amount |-> Val(local[r].totalCost), status |-> "COMPLETED",
     paymentMethod |-> "CREDIT_CARD", bookingId |-> r]

\* prisma.event.create resolves, or rejects (the catch block answers).
EventCreate(r) ==
    /\ pc[r] = "eventCreate"
    /\ \E stored \in BOOLEAN :
        IF stored
        THEN /\ events' = events \cup {NewEvent(r)}
             /\ Await(r, "venueBookingCreate")
             /\ UNCHANGED <<params, local>>
        ELSE /\ ServiceError(r, "Error creating booking.")
             /\ UNCHANGED events
    /\ UNCHANGED <<venueBookings, payments, query, answer, aside>>

\* prisma.venueBooking.create resolves, or rejects.
VenueBookingCreate(r) ==
    /\ pc[r] = "venueBookingCreate"
    /\ \E stored \in BOOLEAN :
        IF stored
        THEN /\ venueBookings' = venueBookings \cup {NewBooking(r)}
             /\ Await(r, "paymentCreate")
             /\ UNCHANGED <<params, local>>
        ELSE /\ ServiceError(r, "Error creating booking.")
             /\ UNCHANGED venueBookings
    /\ UNCHANGED <<events, payments, query, answer, aside>>

\* prisma.payment.create resolves and the booking is returned, or rejects.
PaymentCreate(r) ==
    /\ pc[r] = "paymentCreate"
    /\ \E stored \in BOOLEAN :
        IF stored
        THEN /\ payments' = payments \cup {NewPayment(r)}
             /\ Respond(r, 201, "")
        ELSE /\ ServiceError(r, "Error creating booking.")
             /\ UNCHANGED payments
    /\ UNCHANGED <<events, venueBookings, query, answer, aside>>

NoQuery == [op |-> "none"]

\* event.ticketPrices of the event tickets are sold for: availableSeats and
\* price by seatType
InitialSeats == [VIP |-> 1, REGULAR |-> 2]

SeatPrice == [VIP |-> 50, REGULAR |-> 20]

\* The locals of a ticket request that has not started or has answered
NoTicketLocal ==
    [seatType |-> "", ticketCount |-> 0, ticketPrices |-> InitialSeats,
     paymentId |-> 0, status |-> 0, orderId |-> 0, bookingId |-> 0, confirmed |-> 0]

\* resetTokenExpiry = new Date(Date.now() + 3600000)
resetTokenLifetime == 3600000

\* The arguments, locals and result of an auth request that has not started
NoAuthLocal ==
    [op |-> "", token |-> Undefined, newPassword |-> Undefined,
     resetToken |-> 0, resetTokenExpiry |-> 0, hashedPassword |-> 0,
     success |-> FALSE, error |-> ""]

\* Nothing created yet by the operations other than booking
InitAside ==
    /\ venueColl = << >>
    /\ ticketPrices = InitialSeats
    /\ ticketBookings = {}
    /\ ticketPayments = << >>
    /\ tpc = [r \in Requests |-> "idle"]
    /\ tlocal = [r \in Requests |-> NoTicketLocal]
    /\ user = [password |-> 0, resetToken |-> Undefined, resetTokenExpiry |-> Undefined]
    /\ now = 0
    /\ uuids = 0
    /\ mailbox = {}
    /\ apc = [r \in Requests |-> "idle"]
    /\ alocal = [r \in Requests |-> NoAuthLocal]

Init ==
    /\ events = {}
    /\ venueBookings = {}
    /\ payments = {}
    /\ pc = [r \in Requests |-> "idle"]
    /\ params = [r \in Requests |-> NoParams]
    /\ local = [r \in Requests |-> NoLocal]
    /\ result = [r \in Requests |-> NoResult]
    /\ query = NoQuery
    /\ answer = NoQuery
    /\ InitAside

Next ==
    \E r \in Requests :
        \/ Start(r)
        \/ GetVenueById(r)
        \/ FindMany(r)
        \/ FindUnique(r)
        \/ SimulatePayment(r)
        \/ EventCreate(r)
        \/ VenueBookingCreate(r)
        \/ PaymentCreate(r)

Spec == Init /\ [][Next]_vars

----------------------------------------------------------------------------
(* The geocoder and the distance calculator *)

\* geocodeLocation: the first result of the geocoding service as
\* <<[latitude, longitude]>>, or <<>> for null (no result, or the call failed).
\* "0, 25" is a point on the equator: its latitude is the number 0.
geocodeLocation(location) ==
    CASE location = "Helsinki" -> << [latitude |-> 60000, longitude |-> 25000] >>
      [] location = "0, 25"    -> << [latitude |-> 0, longitude |-> 25000] >>
      [] OTHER                 -> << >>

\* Great-circle (haversine, earth radius 6371 km) distances in metres between
\* the geocoded points and the stored venues.
GreatCircle ==
    [ from \in {<<60000, 25000>>, <<0, 25000>>}, to \in
        {<<Venues[i].latitude, Venues[i].longitude>> : i \in DOMAIN Venues} |->
        IF from = <<60000, 25000>>
        THEN CASE to = <<60000, 25000>> -> 0
               [] to = <<60080, 25170>> -> 12971
               [] to = <<60050, 25100>> -> 7860
               [] to = <<60500, 25000>> -> 55597
               [] to = <<60010, 24990>> -> 1243
        ELSE CASE to = <<60000, 25000>> -> 6671696
               [] to = <<60080, 25170>> -> 6680607
               [] to = <<60050, 25100>> -> 6677261
               [] to = <<60500, 25000>> -> 6727293
               [] to = <<60010, 24990>> -> 6672808 ]

\* calculateDistance(lat1, lon1, lat2, lon2), in metres
calculateDistance(lat1, lon1, lat2, lon2) == GreatCircle[<<lat1, lon1>>, <<lat2, lon2>>]

earthRadiusKm == 6371

\* Math.cos((latitude * Math.PI) / 180) as a fraction, at the latitudes the
\* geocoder returns
Cos(latitude) ==
    CASE latitude = 60000 -> [num |-> 1, den |-> 2]
      [] latitude = 0     -> [num |-> 1, den |-> 1]

\* (maxDistance / earthRadiusKm) * (180 / Math.PI) in millidegrees, rounded
\* down, with 355/113 for Math.PI.  Venue coordinates are whole millidegrees,
\* so comparing against the rounded range selects the same venues.
latRange(radius) == (radius * 180 * 113 * 1000) \div (earthRadiusKm * 355)

lngRange(radius, latitude) ==
    (radius * 180 * 113 * 1000 * Cos(latitude).den)
        \div (earthRadiusKm * 355 * Cos(latitude).num)

----------------------------------------------------------------------------
(* VenueService.searchVenues *)

Truthy(x) == x # Undefined /\ Val(x) # 0

\* new Date(string)
NewDate(str) ==
    CASE str = "2025-01-01"       -> Day(0)
      [] str = "2025-01-03"       -> Day(2)
      [] str = "2025-01-04T12:00" -> HalfDay(7)
      [] OTHER                    -> NaN

\* const { ..., radius = 10 } = filters
Radius(filters) == IF filters.radius = Undefined THEN 10 ELSE Val(filters.radius)

\* if (budget) where.pricePerDay = { lte: budget };
\* if (capacity) where.capacity = { gte: capacity };
WhereBudgetCapacity(filters, venue) ==
    /\ Truthy(filters.budget) => venue.pricePerDay <= Val(filters.budget)
    /\ Truthy(filters.capacity) => venue.capacity >= Val(filters.capacity)

\* if (latitude && longitude): the geocoder returned two non-zero numbers
HasCoordinates(coordinates) ==
    /\ coordinates # << >>
    /\ coordinates[1].latitude # 0
    /\ coordinates[1].longitude # 0

\* where.AND = [{ latitude: { gte, lte } }, { longitude: { gte, lte } }]
WhereBoundingBox(filters, coordinates, venue) ==
    HasCoordinates(coordinates) =>
        LET latitude == coordinates[1].latitude
            longitude == coordinates[1].longitude
        IN  /\ venue.latitude >= latitude - latRange(Radius(filters))
            /\ venue.latitude <= latitude + latRange(Radius(filters))
            /\ venue.longitude >= longitude - lngRange(Radius(filters), latitude)
            /\ venue.longitude <= longitude + lngRange(Radius(filters), latitude)

\* The filter without the bounding box
WhereWithoutBox(filters, coordinates, venue) == WhereBudgetCapacity(filters, venue)

Where(filters, coordinates, venue) ==
    /\ WhereBudgetCapacity(filters, venue)
    /\ WhereBoundingBox(filters, coordinates, venue)

\* prisma.venue.findMany({ where, skip: (page - 1) * limit, take: limit })
findMany(filters, coordinates, page, limit) ==
    LET matching == SelectSeq(Venues, LAMBDA v : Where(filters, coordinates, v))
        skip == (page - 1) * limit
        last == IF skip + limit < Len(matching) THEN skip + limit ELSE Len(matching)
    IN  SubSeq(matching, skip + 1, last)

\* prisma.venue.count({ where })
count(filters, coordinates) ==
    Cardinality({i \in DOMAIN Venues : Where(filters, coordinates, Venues[i])})

\* The radius filter without its distance test
InRadiusUntested(filters, coordinates, venue) ==
    ~(coordinates = << >> \/ coordinates[1].latitude = 0 \/ coordinates[1].longitude = 0
        \/ venue.latitude = 0 \/ venue.longitude = 0)

\* venues.filter(...): false without coordinates, else distance <= radius
InRadius(filters, coordinates, venue) ==
    IF \/ coordinates = << >>
       \/ coordinates[1].latitude = 0
       \/ coordinates[1].longitude = 0
       \/ venue.latitude = 0
       \/ venue.longitude = 0
    THEN FALSE
    ELSE calculateDistance(coordinates[1].latitude, coordinates[1].longitude,
                           venue.latitude, venue.longitude) <= Radius(filters) * 1000

\* The radius filter applied to every matching venue, and the page cut after it
venuesWithinRadiusThenPage(filters, coordinates, page, limit) ==
    LET within == SelectSeq(SelectSeq(Venues, LAMBDA v : Where(filters, coordinates, v)),
                            LAMBDA v : InRadius(filters, coordinates, v))
        skip == (page - 1) * limit
        last == IF skip + limit < Len(within) THEN skip + limit ELSE Len(within)
    IN  SubSeq(within, skip + 1, last)

\* venues.filter(...) on the page findMany returned
venuesWithinRadius(filters, coordinates, page, limit) ==
    SelectSeq(findMany(filters, coordinates, page, limit),
              LAMBDA v : InRadius(filters, coordinates, v))

\* isAvailable with no look at the bookings
AvailabilityUnchecked(bookings, filters, venue) == "true"

\* isAvailable of one venue: true, or checkAvailability when both dates are given
Availability(bookings, filters, venue) ==
    IF filters.startDate # "" /\ filters.endDate # ""
    THEN checkAvailability(bookings, venue.id, NewDate(filters.startDate), NewDate(filters.endDate))
    ELSE "true"

SearchFailed == [op |-> "searchVenues", ok |-> FALSE]

\* The search that goes on without coordinates when the geocoder finds none
searchVenuesUnlocated(bookings, filters, page, limit) ==
    LET coordinates == IF filters.location # "" THEN geocodeLocation(filters.location) ELSE << >>
        found == findMany(filters, coordinates, page, limit)
        within == IF coordinates = << >>
                  THEN found
                  ELSE venuesWithinRadius(filters, coordinates, page, limit)
        total == count(filters, coordinates)
    IN  IF \E i \in DOMAIN within : Availability(bookings, filters, within[i]) = "throws"
        THEN SearchFailed
        ELSE [op |-> "searchVenues", ok |-> TRUE,
              venues |-> [i \in DOMAIN within |->
                            [venue |-> within[i],
                             isAvailable |-> Availability(bookings, filters, within[i]) = "true"]],
              pagination |-> [page |-> page, limit |-> limit, total |-> total,
                              totalPages |-> Ceil(total, limit)]]

\* searchVenues(filters, page, limit): the object it resolves to, or
\* SearchFailed when it throws "Error searching venues: ..."
searchVenues(bookings, filters, page, limit) ==
    LET coordinates == IF filters.location # "" THEN geocodeLocation(filters.location) ELSE << >>
        within == venuesWithinRadius(filters, coordinates, page, limit)
        total == count(filters, coordinates)
    IN  IF filters.location # "" /\ coordinates = << >>
        THEN SearchFailed
        ELSE IF \E i \in DOMAIN within : Availability(bookings, filters, within[i]) = "throws"
        THEN SearchFailed
        ELSE [op |-> "searchVenues", ok |-> TRUE,
              venues |-> [i \in DOMAIN within |->
                            [venue |-> within[i],
                             isAvailable |-> Availability(bookings, filters, within[i]) = "true"]],
              pagination |-> [page |-> page, limit |-> limit, total |-> total,
                              totalPages |-> Ceil(total, limit)]]

----------------------------------------------------------------------------
(* Searches and availability checks on a database at rest *)

\* Bookings written by earlier createBooking calls, and two bookings of venue
\* 3 with the other statuses of BookingStatus, which the schema admits and no
\* code of the repository writes
StoredBookings ==
    { [id |-> 1, venueId |-> 1, eventId |-> 1, startDate |-> Day(0), endDate |-> Day(2),
       services |-> [catering |-> 100, decoration |-> 50, photography |-> 75, music |-> 60],
       totalCost |-> 585, status |-> "CONFIRMED", paymentId |-> 0],
      [id |-> 2, venueId |-> 2, eventId |-> 2, startDate |-> Day(2), endDate |-> HalfDay(7),
       services |-> [catering |-> 200, decoration |-> 0, photography |-> 0, music |-> 60],
       totalCost |-> 1010, status |-> "CONFIRMED", paymentId |-> 0],
      [id |-> 3, venueId |-> 1, eventId |-> 3, startDate |-> HalfDay(7), endDate |-> Day(0),
       services |-> [catering |-> 100, decoration |-> 50, photography |-> 75, music |-> 60],
       totalCost |-> 85, status |-> "CONFIRMED", paymentId |-> 0],
      [id |-> 4, venueId |-> 3, eventId |-> 4, startDate |-> Day(0), endDate |-> Day(2),
       services |-> [catering |-> 100, decoration |-> 50, photography |-> 75, music |-> 60],
       totalCost |-> 525, status |-> "CANCELED", paymentId |-> 0],
      [id |-> 5, venueId |-> 3, eventId |-> 5, startDate |-> HalfDay(7), endDate |-> HalfDay(7),
       services |-> [catering |-> 100, decoration |-> 50, photography |-> 75, music |-> 60],
       totalCost |-> 365, status |-> "PENDING", paymentId |-> 0] }

EventOf(b) == [id |-> b.eventId, venueId |-> b.venueId, date |-> b.startDate]

PaymentOf(b) ==
    [id |-> b.id, amount |-> b.totalCost, status |-> "COMPLETED",
     paymentMethod |-> "CREDIT_CARD", bookingId |-> b.id]

InitSearch ==
    /\ \E stored \in SUBSET StoredBookings :
        /\ venueBookings = stored
        /\ events = {EventOf(b) : b \in stored}
        /\ payments = {PaymentOf(b) : b \in stored}
    /\ pc = [r \in Requests |-> "idle"]
    /\ params = [r \in Requests |-> NoParams]
    /\ local = [r \in Requests |-> NoLocal]
    /\ result = [r \in Requests |-> NoResult]
    /\ query = NoQuery
    /\ answer = NoQuery
    /\ InitAside

BudgetInputs == {Undefined, Num(0), Num(100), Num(250)}
CapacityInputs == {Undefined, Num(100), Num(400)}
LocationInputs == {"", "Helsinki", "0, 25", "Atlantis"}
RadiusInputs == {Undefined, Num(20)}
DateStringInputs ==
    { <<"", "">>, <<"2025-01-01", "2025-01-03">>, <<"2025-01-04T12:00", "">>,
      <<"2025-01-03", "someday">> }

SearchInputs ==
    { [budget |-> b, capacity |-> c, location |-> l, radius |-> rad,
       startDate |-> d[1], endDate |-> d[2]] :
        b \in BudgetInputs, c \in CapacityInputs, l \in LocationInputs,
        rad \in RadiusInputs, d \in DateStringInputs }

\* A call of VenueService.searchVenues, on a database no request is writing
SearchVenues ==
    /\ query = NoQuery
    /\ \E filters \in SearchInputs, page \in 1..MaxPage, limit \in 1..MaxLimit :
        /\ query' = [op |-> "searchVenues", filters |-> filters, page |-> page, limit |-> limit]
        /\ answer' = searchVenues(venueBookings, filters, page, limit)
    /\ UNCHANGED <<events, venueBookings, payments, pc, params, local, result, aside>>

\* A call of VenueService.checkAvailability
CheckAvailability ==
    /\ query = NoQuery
    /\ \E venueId \in {1, 2, 3}, d \in RangeInputs \cup {[startDate |-> Day(2), endDate |-> Day(2)]} :
        /\ query' = [op |-> "checkAvailability", venueId |-> venueId,
                     startDate |-> d.startDate, endDate |-> d.endDate]
        /\ answer' = [op |-> "checkAvailability",
                      value |-> checkAvailability(venueBookings, venueId, d.startDate, d.endDate)]
    /\ UNCHANGED <<events, venueBookings, payments, pc, params, local, result, aside>>

\* A call of VenueService.createBooking by itself, with dates and a total
\* cost the caller chose, run to its end while no other request runs.  Of its
\* three writes the first `written` resolve; the records get the id 6.
CreateBooking ==
    /\ query = NoQuery
    /\ \E venueId \in {1, 3}, d \in RangeInputs, totalCost \in {Num(500), NaN},
          written \in 0..3 :
        LET isAvailable == checkAvailability(venueBookings, venueId, d.startDate, d.endDate)
            error == IF InvalidTotalCost(totalCost)
                     THEN "Invalid totalCost provided. It must be a valid number."
                     ELSE IF isAvailable = "throws"
                     THEN "Error creating booking."
                     ELSE IF isAvailable = "false"
                     THEN "Venue is not available for the selected time slot"
                     ELSE IF findUnique(venueId) = {}
                     THEN "Venue not found"
                     ELSE IF ~simulatePayment(totalCost)
                     THEN "Payment failed. Booking not created."
                     ELSE IF written < 3
                     THEN "Error creating booking."
                     ELSE ""
            reached == error \in {"", "Error creating booking."} /\ isAvailable = "true"
            writes == IF reached THEN written ELSE 0
        IN  /\ query' = [op |-> "createBooking", venueId |-> venueId,
                         startDate |-> d.startDate, endDate |-> d.endDate]
            /\ answer' = [op |-> "createBooking", error |-> error]
            /\ events' = IF writes >= 1
                         THEN events \cup {[id |-> 6, venueId |-> venueId,
                                             date |-> d.startDate]}
                         ELSE events
            /\ venueBookings' = IF writes >= 2
                         THEN venueBookings \cup
                                {[id |-> 6, venueId |-> venueId, eventId |-> 6,
                                  startDate |-> d.startDate, endDate |-> d.endDate,
                                  services |-> [catering |-> 100, decoration |-> 50,
                                                photography |-> 75, music |-> 60],
                                  totalCost |-> Val(totalCost), status |-> "CONFIRMED",
                                  paymentId |-> 0]}
                         ELSE venueBookings
            /\ payments' = IF writes >= 3
                         THEN payments \cup
                                {[id |-> 6, amount |-> Val(totalCost), status |-> "COMPLETED",
                                  paymentMethod |-> "CREDIT_CARD", bookingId |-> 6]}
                         ELSE payments
    /\ UNCHANGED <<pc, params, local, result, aside>>

NextSearch == SearchVenues \/ CheckAvailability \/ CreateBooking

SpecSearch == InitSearch /\ [][NextSearch]_vars

----------------------------------------------------------------------------
(* The pricing of the four services of one request body *)

\* The controller maps the four tier labels of parsedServices to costs and
\* adds them up.
MapServices ==
    /\ query = NoQuery
    /\ \E services \in [ServiceKeys -> Labels] :
        /\ query' = [op |-> "mapServiceToValue", services |-> services]
        /\ answer' = [op |-> "mapServiceToValue",
                      serviceCosts |-> ServiceCosts(services),
                      servicesCost |-> ServicesCost(ServiceCosts(services))]
    /\ UNCHANGED <<events, venueBookings, payments, pc, params, local, result, aside>>

NextTiers == MapServices

SpecTiers == Init /\ [][NextTiers]_vars

----------------------------------------------------------------------------
(* VenueService.createVenue and VenueService.updateVenue.  A stored venue  *)
(* is [id, location, capacity, latitude, longitude]; name, description,    *)
(* image and pricePerDay are written like capacity and are left out.       *)

CreatedLocations == {"Helsinki", "0, 25", "Atlantis"}

\* data.location and data.capacity of updateVenue: << >> when not given
UpdatedLocations == {<< >>, <<"Helsinki">>, <<"Atlantis">>}
UpdatedCapacities == {Undefined, Num(50)}

\* createVenue that stores the venue without coordinates when the geocoder
\* finds none
CreateVenueUngeocoded ==
    /\ Len(venueColl) < MaxVenues
    /\ \E location \in CreatedLocations, capacity \in {100, 200} :
        LET coordinates == geocodeLocation(location)
        IN  /\ query' = [op |-> "createVenue", location |-> location, capacity |-> capacity]
            /\ venueColl' = Append(venueColl,
                    [id |-> Len(venueColl) + 1, location |-> location, capacity |-> capacity,
                     latitude |-> IF coordinates = << >> THEN NaN
                                  ELSE Num(coordinates[1].latitude),
                     longitude |-> IF coordinates = << >> THEN NaN
                                   ELSE Num(coordinates[1].longitude)])
            /\ answer' = [op |-> "createVenue", ok |-> TRUE, error |-> ""]
    /\ UNCHANGED <<bookingVars, ticketVars, authVars>>

\* createVenue(name, location, capacity, pricePerDay): geocode, then
\* prisma.venue.create, which resolves or rejects
CreateVenue ==
    /\ Len(venueColl) < MaxVenues
    /\ \E location \in CreatedLocations, capacity \in {100, 200}, stored \in BOOLEAN :
        LET coordinates == geocodeLocation(location)
        IN  /\ query' = [op |-> "createVenue", location |-> location, capacity |-> capacity]
            /\ IF coordinates = << >>
               THEN /\ answer' = [op |-> "createVenue", ok |-> FALSE,
                                  error |-> "Could not geocode the provided location."]
                    /\ UNCHANGED venueColl
               ELSE IF ~stored
               THEN /\ answer' = [op |-> "createVenue", ok |-> FALSE,
                                  error |-> "Error creating venue"]
                    /\ UNCHANGED venueColl
               ELSE /\ venueColl' = Append(venueColl,
                            [id |-> Len(venueColl) + 1, location |-> location,
                             capacity |-> capacity,
                             latitude |-> Num(coordinates[1].latitude),
                             longitude |-> Num(coordinates[1].longitude)])
                    /\ answer' = [op |-> "createVenue", ok |-> TRUE, error |-> ""]
    /\ UNCHANGED <<bookingVars, ticketVars, authVars>>

\* updateVenue(id, data): prisma.venue.update with the six fields of data;
\* it rejects when no venue has the id
UpdateVenue ==
    /\ \E id \in 1..MaxVenues, location \in UpdatedLocations, capacity \in UpdatedCapacities :
        /\ query' = [op |-> "updateVenue", id |-> id, location |-> location,
                     capacity |-> capacity]
        /\ IF id \notin DOMAIN venueColl
           THEN /\ answer' = [op |-> "updateVenue", ok |-> FALSE,
                              error |-> "Error updating venue"]
                /\ UNCHANGED venueColl
           ELSE /\ venueColl' = [venueColl EXCEPT ![id] =
                        [@ EXCEPT !.location = IF location = << >> THEN @ ELSE location[1],
                                  !.capacity = IF capacity = Undefined THEN @ ELSE Val(capacity)]]
                /\ answer' = [op |-> "updateVenue", ok |-> TRUE, error |-> ""]
    /\ UNCHANGED <<bookingVars, ticketVars, authVars>>

NextVenue == CreateVenue \/ UpdateVenue

SpecVenue == Init /\ [][NextVenue]_vars

----------------------------------------------------------------------------
(* bookTicket: concurrent requests for the tickets of one event.  A request *)
(* is suspended at the database call named by tpc.                         *)

\* req.body.seatType and req.body.ticketCount
SeatTypeInputs == {"VIP", "REGULAR", "BALCONY"}
TicketCountInputs == {-1, 0, 1, 2}

\* The handler answers with this status; its locals are gone.
TicketReply(r, status) ==
    /\ tpc' = [tpc EXCEPT ![r] = "done"]
    /\ tlocal' = [tlocal EXCEPT ![r] = [NoTicketLocal EXCEPT !.status = status]]

\* prisma.event.findUnique resolves with the event (or rejects); the handler
\* finds the seat type, compares availableSeats with ticketCount and calls
\* prisma.payment.create.
BookTicketFindUnique(r) ==
    /\ tpc[r] = "idle"
    /\ \E seatType \in SeatTypeInputs, ticketCount \in TicketCountInputs,
          resolved \in BOOLEAN :
        IF ~resolved
        THEN TicketReply(r, 500)
        ELSE IF seatType \notin DOMAIN ticketPrices
        THEN TicketReply(r, 400)
        ELSE IF ticketPrices[seatType] < ticketCount
        THEN TicketReply(r, 400)
        ELSE /\ tpc' = [tpc EXCEPT ![r] = "paymentCreate"]
             /\ tlocal' = [tlocal EXCEPT ![r] =
                    [NoTicketLocal EXCEPT !.seatType = seatType,
                                          !.ticketCount = ticketCount,
                                          !.ticketPrices = ticketPrices]]
    /\ UNCHANGED <<ticketPrices, ticketBookings, ticketPayments>>
    /\ UNCHANGED <<bookingVars, query, answer, venueColl, authVars>>

\* prisma.payment.create resolves, or rejects
BookTicketPaymentCreate(r) ==
    /\ tpc[r] = "paymentCreate"
    /\ \E stored \in BOOLEAN :
        IF stored
        THEN /\ ticketPayments' = Append(ticketPayments,
                    [id |-> Len(ticketPayments) + 1,
                     amount |-> SeatPrice[tlocal[r].seatType] * tlocal[r].ticketCount,
                     paymentMethod |-> "CARD", status |-> "PENDING"])
             /\ tpc' = [tpc EXCEPT ![r] = "ticketBookingCreate"]
             /\ tlocal' = [tlocal EXCEPT ![r].paymentId = Len(ticketPayments) + 1]
        ELSE /\ TicketReply(r, 500)
             /\ UNCHANGED ticketPayments
    /\ UNCHANGED <<ticketPrices, ticketBookings>>
    /\ UNCHANGED <<bookingVars, query, answer, venueColl, authVars>>

\* prisma.ticketBooking.create resolves, or rejects; then the handler lowers
\* availableSeats in the list it read and calls prisma.event.update
BookTicketBookingCreate(r) ==
    /\ tpc[r] = "ticketBookingCreate"
    /\ \E stored \in BOOLEAN :
        IF stored
        THEN /\ ticketBookings' = ticketBookings \cup
                    {[id |-> r, seatType |-> tlocal[r].seatType,
                      ticketCount |-> tlocal[r].ticketCount,
                      paymentId |-> tlocal[r].paymentId, status |-> "PENDING"]}
             /\ tpc' = [tpc EXCEPT ![r] = "eventUpdate"]
             /\ tlocal' = [tlocal EXCEPT ![r].ticketPrices =
                    [@ EXCEPT ![tlocal[r].seatType] = @ - tlocal[r].ticketCount]]
        ELSE /\ TicketReply(r, 500)
             /\ UNCHANGED ticketBookings
    /\ UNCHANGED <<ticketPrices, ticketPayments>>
    /\ UNCHANGED <<bookingVars, query, answer, venueColl, authVars>>

\* prisma.event.update({ data: { ticketPrices } }) writes the whole list the
\* handler read and changed, or rejects
BookTicketEventUpdate(r) ==
    /\ tpc[r] = "eventUpdate"
    /\ \E stored \in BOOLEAN :
        IF stored
        THEN /\ ticketPrices' = tlocal[r].ticketPrices
             /\ TicketReply(r, 200)
        ELSE /\ TicketReply(r, 500)
             /\ UNCHANGED ticketPrices
    /\ UNCHANGED <<ticketBookings, ticketPayments>>
    /\ UNCHANGED <<bookingVars, query, answer, venueColl, authVars>>

NextTicket ==
    \E r \in Requests :
        \/ BookTicketFindUnique(r)
        \/ BookTicketPaymentCreate(r)
        \/ BookTicketBookingCreate(r)
        \/ BookTicketEventUpdate(r)

SpecTicket == Init /\ [][NextTicket]_vars

----------------------------------------------------------------------------
(* createOrder and verifyPayment: every user orders tickets once and then  *)
(* posts the verification of the order.  User r gets the Razorpay order r;  *)
(* ticketPayments is in the order of createdAt.                             *)

\* req.body.numberOfTickets and req.body.amount of createOrder
NumberOfTicketsInputs == {1, 2}
AmountInputs == {20, 40}

\* crypto.createHmac('sha256', key_secret).update(order_id + '|' + payment_id)
\* .digest('hex'); the Razorpay payment of order o is "pay_o".
Hmac(razorpay_order_id, razorpay_payment_id) ==
    <<"sha256", razorpay_order_id, razorpay_payment_id>>

\* req.body.razorpay_signature: the signature of one of the orders, or of none
SignatureInputs == {Hmac(o, o) : o \in 0..NumRequests}

\* createOrder: prisma.event.findUnique resolves with the event (or
\* rejects), then razorpay.orders.create is called
CreateOrderFindUnique(r) ==
    /\ tpc[r] = "idle"
    /\ \E numberOfTickets \in NumberOfTicketsInputs, resolved \in BOOLEAN :
        IF ~resolved
        THEN TicketReply(r, 500)
        ELSE /\ tpc' = [tpc EXCEPT ![r] = "ordersCreate"]
             /\ tlocal' = [tlocal EXCEPT ![r] =
                    [NoTicketLocal EXCEPT !.seatType = "REGULAR",
                                          !.ticketCount = numberOfTickets]]
    /\ UNCHANGED <<ticketPrices, ticketBookings, ticketPayments>>
    /\ UNCHANGED <<bookingVars, query, answer, venueColl, authVars>>

\* razorpay.orders.create resolves with the order, or rejects
CreateOrderOrdersCreate(r) ==
    /\ tpc[r] = "ordersCreate"
    /\ \E created \in BOOLEAN :
        IF created
        THEN /\ tpc' = [tpc EXCEPT ![r] = "transaction"]
             /\ tlocal' = [tlocal EXCEPT ![r].orderId = r]
        ELSE TicketReply(r, 500)
    /\ UNCHANGED <<ticketPrices, ticketBookings, ticketPayments>>
    /\ UNCHANGED <<bookingVars, query, answer, venueColl, authVars>>

\* prisma.$transaction creates the payment and the ticket booking together,
\* or rejects and creates neither; then res.json({ orderId })
CreateOrderTransaction(r) ==
    /\ tpc[r] = "transaction"
    /\ \E amount \in AmountInputs, committed \in BOOLEAN :
        IF committed
        THEN /\ ticketPayments' = Append(ticketPayments,
                    [id |-> Len(ticketPayments) + 1, amount |-> amount,
                     paymentMethod |-> "RAZORPAY", status |-> "PENDING"])
             /\ ticketBookings' = ticketBookings \cup
                    {[id |-> r, seatType |-> "REGULAR",
                      ticketCount |-> tlocal[r].ticketCount,
                      paymentId |-> Len(ticketPayments) + 1, status |-> "PENDING"]}
             /\ tpc' = [tpc EXCEPT ![r] = "ordered"]
             /\ tlocal' = [tlocal EXCEPT ![r] =
                    [NoTicketLocal EXCEPT !.orderId = tlocal[r].orderId,
                                          !.bookingId = r,
                                          !.status = 200]]
        ELSE /\ TicketReply(r, 500)
             /\ UNCHANGED <<ticketPayments, ticketBookings>>
    /\ UNCHANGED ticketPrices
    /\ UNCHANGED <<bookingVars, query, answer, venueColl, authVars>>

\* The answer of verifyPayment; what createOrder answered the user is kept.
VerifyReply(r, status, ticketBooking) ==
    /\ tpc' = [tpc EXCEPT ![r] = "done"]
    /\ tlocal' = [tlocal EXCEPT ![r] =
            [NoTicketLocal EXCEPT !.orderId = tlocal[r].orderId,
                                  !.bookingId = tlocal[r].bookingId,
                                  !.status = status,
                                  !.confirmed = ticketBooking]]

\* The RAZORPAY payments, latest first: the ids prisma.payment.findFirst
\* chooses from
RazorpayPayments ==
    {i \in DOMAIN ticketPayments : ticketPayments[i].paymentMethod = "RAZORPAY"}

\* prisma.payment.findFirst({ where: { paymentMethod: 'RAZORPAY' },
\* orderBy: { createdAt: 'desc' } }): the id of the payment, 0 for null
findFirst ==
    IF RazorpayPayments = {} THEN 0
    ELSE CHOOSE i \in RazorpayPayments : \A j \in RazorpayPayments : j <= i

\* payment.ticketBookings: the ids of the bookings of the payment
ticketBookingsOf(paymentId) ==
    {b.id : b \in {x \in ticketBookings : x.paymentId = paymentId}}

\* verifyPayment of the user's order: the signature is compared with the
\* HMAC of order id and payment id; then prisma.payment.findFirst is called
VerifyPaymentSignature(r) ==
    /\ tpc[r] = "ordered"
    /\ \E razorpay_signature \in SignatureInputs :
        IF razorpay_signature # Hmac(tlocal[r].orderId, tlocal[r].orderId)
        THEN VerifyReply(r, 400, 0)
        ELSE /\ tpc' = [tpc EXCEPT ![r] = "findFirst"]
             /\ UNCHANGED tlocal
    /\ UNCHANGED <<ticketPrices, ticketBookings, ticketPayments>>
    /\ UNCHANGED <<bookingVars, query, answer, venueColl, authVars>>

\* prisma.payment.findFirst resolves (or rejects); then prisma.payment.update
\* is called for the payment found
VerifyPaymentFindFirst(r) ==
    /\ tpc[r] = "findFirst"
    /\ \E resolved \in BOOLEAN :
        IF ~resolved
        THEN VerifyReply(r, 500, 0)
        ELSE IF findFirst = 0
        THEN VerifyReply(r, 404, 0)
        ELSE /\ tpc' = [tpc EXCEPT ![r] = "paymentUpdate"]
             /\ tlocal' = [tlocal EXCEPT ![r].paymentId = findFirst,
                                         ![r].confirmed =
                                CHOOSE b \in ticketBookingsOf(findFirst) : TRUE]
    /\ UNCHANGED <<ticketPrices, ticketBookings, ticketPayments>>
    /\ UNCHANGED <<bookingVars, query, answer, venueColl, authVars>>

\* verifyPayment that goes on to the booking without completing the payment
VerifyPaymentUpdateSkipped(r) ==
    /\ tpc[r] = "paymentUpdate"
    /\ tpc' = [tpc EXCEPT ![r] = "ticketBookingUpdate"]
    /\ UNCHANGED <<tlocal, ticketPrices, ticketBookings, ticketPayments>>
    /\ UNCHANGED <<bookingVars, query, answer, venueColl, authVars>>

\* prisma.payment.update({ data: { status: 'COMPLETED' } }) resolves, or
\* rejects
VerifyPaymentUpdate(r) ==
    /\ tpc[r] = "paymentUpdate"
    /\ \E stored \in BOOLEAN :
        IF stored
        THEN /\ ticketPayments' = [ticketPayments EXCEPT
                    ![tlocal[r].paymentId].status = "COMPLETED"]
             /\ tpc' = [tpc EXCEPT ![r] = "ticketBookingUpdate"]
             /\ UNCHANGED tlocal
        ELSE /\ VerifyReply(r, 500, 0)
             /\ UNCHANGED ticketPayments
    /\ UNCHANGED <<ticketPrices, ticketBookings>>
    /\ UNCHANGED <<bookingVars, query, answer, venueColl, authVars>>

\* prisma.ticketBooking.update({ where: { id: payment.ticketBookings[0].id },
\* data: { status: 'CONFIRMED' } }) resolves and the booking is returned, or
\* rejects
VerifyTicketBookingUpdate(r) ==
    /\ tpc[r] = "ticketBookingUpdate"
    /\ \E stored \in BOOLEAN :
        IF stored
        THEN /\ ticketBookings' =
                    {IF b.id = tlocal[r].confirmed
                     THEN [b EXCEPT !.status = "CONFIRMED"] ELSE b : b \in ticketBookings}
             /\ VerifyReply(r, 200, tlocal[r].confirmed)
        ELSE /\ VerifyReply(r, 500, 0)
             /\ UNCHANGED ticketBookings
    /\ UNCHANGED <<ticketPrices, ticketPayments>>
    /\ UNCHANGED <<bookingVars, query, answer, venueColl, authVars>>

NextRazorpay ==
    \E r \in Requests :
        \/ CreateOrderFindUnique(r)
        \/ CreateOrderOrdersCreate(r)
        \/ CreateOrderTransaction(r)
        \/ VerifyPaymentSignature(r)
        \/ VerifyPaymentFindFirst(r)
        \/ VerifyPaymentUpdate(r)
        \/ VerifyTicketBookingUpdate(r)

SpecRazorpay == Init /\ [][NextRazorpay]_vars

----------------------------------------------------------------------------
(* AuthService.forgotPassword and AuthService.resetPassword for the one    *)
(* registered user.  A request that has returned may call again.  The      *)
(* clock moves in steps of half the lifetime of a token; the hashing and   *)
(* the update of one resetPassword take less than a step.                  *)

\* email of forgotPassword: the user's, or one nobody registered
EmailInputs == {"user@example.com", "nobody@example.com"}

\* bcrypt.hash(newPassword, 10): newPassword r hashes to r + 100
bcryptHash(newPassword) == Val(newPassword) + 100

\* The auth request r is not inside a service call
AtRest(r) == apc[r] \in {"idle", "done"}

AuthReturn(r, success, error) ==
    /\ apc' = [apc EXCEPT ![r] = "done"]
    /\ alocal' = [alocal EXCEPT ![r].success = success, ![r].error = error]

\* Time passes
Tick ==
    /\ now < MaxTicks * (resetTokenLifetime \div 2)
    /\ \A r \in Requests : apc[r] \notin {"hash", "resetUpdate"}
    /\ now' = now + (resetTokenLifetime \div 2)
    /\ UNCHANGED <<user, uuids, mailbox, apc, alocal>>
    /\ UNCHANGED <<bookingVars, query, answer, venueColl, ticketVars>>

\* forgotPassword(email): prisma.user.findUnique resolves (or rejects); for
\* the user a token and its expiry are made and prisma.user.update is called
ForgotFindUnique(r) ==
    /\ AtRest(r)
    /\ uuids < MaxTokens
    /\ \E email \in EmailInputs, resolved \in BOOLEAN :
        IF ~resolved
        THEN /\ AuthReturn(r, FALSE, "Error while processing forgot password request")
             /\ UNCHANGED uuids
        ELSE IF email # "user@example.com"
        THEN /\ apc' = [apc EXCEPT ![r] = "done"]
             /\ alocal' = [alocal EXCEPT ![r] =
                    [NoAuthLocal EXCEPT !.op = "forgotPassword",
                                        !.error = "User not found"]]
             /\ UNCHANGED uuids
        ELSE /\ uuids' = uuids + 1
             /\ apc' = [apc EXCEPT ![r] = "forgotUpdate"]
             /\ alocal' = [alocal EXCEPT ![r] =
                    [NoAuthLocal EXCEPT !.op = "forgotPassword",
                                        !.resetToken = uuids + 1,
                                        !.resetTokenExpiry = now + resetTokenLifetime]]
    /\ UNCHANGED <<user, now, mailbox>>
    /\ UNCHANGED <<bookingVars, query, answer, venueColl, ticketVars>>

\* prisma.user.update({ data: { resetToken, resetTokenExpiry } }) resolves,
\* or rejects
ForgotUpdate(r) ==
    /\ apc[r] = "forgotUpdate"
    /\ \E stored \in BOOLEAN :
        IF stored
        THEN /\ user' = [user EXCEPT !.resetToken = Num(alocal[r].resetToken),
                                     !.resetTokenExpiry = Num(alocal[r].resetTokenExpiry)]
             /\ apc' = [apc EXCEPT ![r] = "sendEmail"]
             /\ UNCHANGED alocal
        ELSE /\ AuthReturn(r, FALSE, "Error while processing forgot password request")
             /\ UNCHANGED user
    /\ UNCHANGED <<now, uuids, mailbox>>
    /\ UNCHANGED <<bookingVars, query, answer, venueColl, ticketVars>>

\* sendEmail resolves and the link with the token is in the user's mailbox,
\* or rejects
ForgotSendEmail(r) ==
    /\ apc[r] = "sendEmail"
    /\ \E sent \in BOOLEAN :
        IF sent
        THEN /\ mailbox' = mailbox \cup {alocal[r].resetToken}
             /\ AuthReturn(r, TRUE, "")
        ELSE /\ AuthReturn(r, FALSE, "Error while processing forgot password request")
             /\ UNCHANGED mailbox
    /\ UNCHANGED <<user, now, uuids>>
    /\ UNCHANGED <<bookingVars, query, answer, venueColl, ticketVars>>

\* token of resetPassword: one from a reset link, one nobody issued (0), or
\* none (resetPasswordSchema has token optional)
TokenInputs == {Num(t) : t \in mailbox \cup {0}} \cup {Undefined}

\* where: { resetToken: token, resetTokenExpiry: { gt: new Date() } }; a
\* condition whose value is undefined is left out of the query
findFirstUser(token) ==
    /\ token # Undefined => user.resetToken = token
    /\ user.resetTokenExpiry # Undefined
    /\ Val(user.resetTokenExpiry) > now

\* resetPassword(token, newPassword): prisma.user.findFirst resolves with
\* the user or null (or rejects); then bcrypt.hash is called
ResetFindFirst(r) ==
    /\ AtRest(r)
    /\ \E token \in TokenInputs, resolved \in BOOLEAN :
        /\ apc' = [apc EXCEPT ![r] =
                IF resolved /\ findFirstUser(token) THEN "hash" ELSE "done"]
        /\ alocal' = [alocal EXCEPT ![r] =
                [NoAuthLocal EXCEPT !.op = "resetPassword",
                                    !.token = token,
                                    !.newPassword = Num(r),
                                    !.error = IF ~resolved
                                              THEN "Error while resetting password"
                                              ELSE IF findFirstUser(token) THEN ""
                                              ELSE "Invalid or expired token"]]
    /\ UNCHANGED <<user, now, uuids, mailbox>>
    /\ UNCHANGED <<bookingVars, query, answer, venueColl, ticketVars>>

\* bcrypt.hash resolves (or rejects); then prisma.user.update is called
ResetHash(r) ==
    /\ apc[r] = "hash"
    /\ \E hashed \in BOOLEAN :
        IF hashed
        THEN /\ apc' = [apc EXCEPT ![r] = "resetUpdate"]
             /\ alocal' = [alocal EXCEPT ![r].hashedPassword =
                                bcryptHash(alocal[r].newPassword)]
        ELSE AuthReturn(r, FALSE, "Error while resetting password")
    /\ UNCHANGED <<user, now, uuids, mailbox>>
    /\ UNCHANGED <<bookingVars, query, answer, venueColl, ticketVars>>

\* prisma.user.update({ data: { password, resetToken: null,
\* resetTokenExpiry: null } }) resolves, or rejects
ResetUpdate(r) ==
    /\ apc[r] = "resetUpdate"
    /\ \E stored \in BOOLEAN :
        IF stored
        THEN /\ user' = [password |-> alocal[r].hashedPassword,
                         resetToken |-> Undefined, resetTokenExpiry |-> Undefined]
             /\ AuthReturn(r, TRUE, "")
        ELSE /\ AuthReturn(r, FALSE, "Error while resetting password")
             /\ UNCHANGED user
    /\ UNCHANGED <<now, uuids, mailbox>>
    /\ UNCHANGED <<bookingVars, query, answer, venueColl, ticketVars>>

NextAuth ==
    \/ Tick
    \/ \E r \in Requests :
        \/ ForgotFindUnique(r)
        \/ ForgotUpdate(r)
        \/ ForgotSendEmail(r)
        \/ ResetFindFirst(r)
        \/ ResetHash(r)
        \/ ResetUpdate(r)

SpecAuth == Init /\ [][NextAuth]_vars

----------------------------------------------------------------------------
(* Claims about createBooking *)

Unavailable == "Venue is not available for the selected time slot"

Owns(r) ==
    \/ \E e \in events : e.id = r
    \/ \E b \in venueBookings : b.id = r
    \/ \E p \in payments : p.id = r

InclusiveOverlap(a, b) ==
    /\ Val(a.startDate) <= Val(b.endDate)
    /\ Val(a.endDate) >= Val(b.startDate)

\* C1: two bookings of the same venue whose date ranges overlap under the
\* inclusive rule are never both stored with status CONFIRMED, whatever the
\* interleaving of the requests.
C1_NoDoubleBooking ==
    \A a \in venueBookings : \A b \in venueBookings :
        (/\ a.id # b.id
         /\ a.venueId = b.venueId
         /\ a.status = "CONFIRMED"
         /\ b.status = "CONFIRMED") => ~InclusiveOverlap(a, b)

\* C2: once a createBooking call has returned, the Event, the VenueBooking
\* and the Payment of that request exist all three, or none of them does.
C2_AllOrNothing ==
    \A r \in Requests :
        pc[r] = "done" =>
            /\ (\E e \in events : e.id = r) <=> (\E b \in venueBookings : b.id = r)
            /\ (\E b \in venueBookings : b.id = r) <=> (\E p \in payments : p.id = r)

\* C3: in every reachable state, every Event written by a booking request has
\* its VenueBooking, and every CONFIRMED VenueBooking has its COMPLETED Payment.
C3_NoPartialBookingVisible ==
    /\ \A e \in events : \E b \in venueBookings : b.eventId = e.id
    /\ \A b \in venueBookings :
        b.status = "CONFIRMED" =>
            \E p \in payments : p.bookingId = b.id /\ p.status = "COMPLETED"

\* C4: every stored venue booking has
\* totalCost = (ceil((endDate - startDate) / 86400000) + 1) * venue.pricePerDay
\*             + catering + decoration + photography + music.
C4_TotalCost ==
    \A b \in venueBookings :
        b.totalCost =
            (Ceil(Val(b.endDate) - Val(b.startDate), MsPerDay) + 1)
                * VenueOf(b.venueId).pricePerDay
            + b.services["catering"] + b.services["decoration"]
            + b.services["photography"] + b.services["music"]

\* C4 witness: venue 1 (100 a day) booked 1 Jan - 3 Jan with every service
\* "standard" is stored with totalCost 585.
C4_Witness ==
    \E b \in venueBookings :
        /\ b.venueId = 1
        /\ b.startDate = Day(0) /\ b.endDate = Day(2)
        /\ b.services = [catering |-> 100, decoration |-> 50, photography |-> 75, music |-> 60]
        /\ b.totalCost = 585

\* C5: a createBooking whose availability check runs while a booking of the
\* same venue with an overlapping range (boundaries included) is stored is
\* answered with the venue-unavailable error, and a request answered so has
\* written no Event, VenueBooking or Payment.
C5_OverlapRejected ==
    /\ [](\A r \in Requests : result[r].error = Unavailable => ~Owns(r))
    /\ [][\A r \in Requests :
            (/\ pc[r] = "findMany"
             /\ pc'[r] # "findMany"
             /\ \E b \in venueBookings :
                    /\ b.venueId = params[r].venueId
                    /\ Val(b.startDate) <= Val(params[r].endDate)
                    /\ Val(b.endDate) >= Val(params[r].startDate))
            => /\ pc'[r] = "done"
               /\ result'[r] = [status |-> 400, error |-> Unavailable, logged |-> Unavailable]
               /\ events' = events
               /\ venueBookings' = venueBookings
               /\ payments' = payments]_vars

\* C5 witness: venue 1 is booked 1 Jan - 3 Jan by request 1 alone, and
\* request 2 has been answered with the venue-unavailable error.
C5_Witness ==
    /\ \E b \in venueBookings :
        b.id = 1 /\ b.venueId = 1 /\ b.startDate = Day(0) /\ b.endDate = Day(2)
    /\ result[2].error = Unavailable
    /\ ~Owns(2)
    /\ Cardinality(venueBookings) = 1

\* C15: a request whose computed total is NaN, zero or negative is rejected
\* and writes nothing, so every stored VenueBooking has totalCost > 0 and
\* every stored Payment has amount > 0.
C15_PositiveAmounts ==
    /\ \A b \in venueBookings : b.totalCost > 0
    /\ \A p \in payments : p.amount > 0

\* C16: every stored VenueBooking has startDate <= endDate.
C16_StartNotAfterEnd ==
    \A b \in venueBookings : Val(b.startDate) <= Val(b.endDate)

\* C17: after a createBooking answered with 201, the request's VenueBooking
\* is CONFIRMED and names the request's Event in eventId, the request's
\* Payment is COMPLETED and names the booking in bookingId, and the booking
\* names that Payment in paymentId.
C17_RecordsLinked ==
    \A r \in Requests :
        result[r].status = 201 =>
            \E e \in events : \E b \in venueBookings : \E p \in payments :
                /\ e.id = r /\ b.id = r /\ p.id = r
                /\ b.status = "CONFIRMED"
                /\ b.eventId = e.id
                /\ p.status = "COMPLETED"
                /\ p.bookingId = b.id
                /\ b.paymentId = p.id

\* The errors createBooking reports before it writes
RejectedBeforeWrite ==
    { "Invalid totalCost provided. It must be a valid number.",
      "Services must include catering, decoration, photography, and music",
      "Venue is not available for the selected time slot",
      "Venue not found" }

\* C18: a createBooking call answered with a validation error (invalid total
\* cost, services without one of the four keys), the venue-unavailable error
\* or the venue-not-found error has written no Event, no VenueBooking and no
\* Payment: each collection holds what it held before the call and what
\* other requests wrote.
C18_RejectedWritesNothing ==
    \A r \in Requests :
        result[r].error \in RejectedBeforeWrite
            => /\ ~\E e \in events : e.id = r
               /\ ~\E b \in venueBookings : b.id = r
               /\ ~\E p \in payments : p.id = r

\* C18 witness: request 1 booked venue 1 and was answered 201; request 2,
\* whose start date does not parse, was answered with the invalid-total error,
\* and the collections hold the three records of request 1 only.
C18_Witness ==
    /\ result[1].status = 201
    /\ result[2].error = "Invalid totalCost provided. It must be a valid number."
    /\ {e.id : e \in events} = {1}
    /\ {b.id : b \in venueBookings} = {1}
    /\ {p.id : p \in payments} = {1}

InvalidServices == "Services must include catering, decoration, photography, and music"

\* C19: a request whose services lack one of the keys catering, decoration,
\* photography and music never gets to the venue lookup, the availability
\* check, the payment or a write: every request in flight and every stored
\* booking has the four keys, and a request answered with the
\* invalid-services error got status 400 and has written nothing.
C19_MissingServiceKeyRejected ==
    /\ \A r \in Requests :
        /\ pc[r] \notin {"idle", "done"}
              => {"catering", "decoration", "photography", "music"}
                    \subseteq DOMAIN params[r].services
        /\ result[r].error = InvalidServices
              => /\ result[r].status = 400
                 /\ ~Owns(r)
    /\ \A b \in venueBookings :
        DOMAIN b.services = {"catering", "decoration", "photography", "music"}

\* C19 witness: request 1 was answered 400 with the invalid-services error
\* and wrote nothing; request 2, with the four keys, was booked.
C19_Witness ==
    /\ result[1] = [status |-> 400, error |-> InvalidServices, logged |-> ""]
    /\ ~Owns(1)
    /\ result[2].status = 201
    /\ {b.id : b \in venueBookings} = {2}

\* The kind of the failure a request ended with, after the error it
\* answered with and the message it logged
FailureKind(res) ==
    CASE res.logged = "Unexpected token c in JSON at position 1" -> "validation"
      [] res.logged = "Error fetching venue by ID" -> "persistence"
      [] res.error = InvalidServices -> "validation"
      [] res.error = "Invalid totalCost provided. It must be a valid number." -> "validation"
      [] res.error = "Venue not found" -> "not found"
      [] res.error = Unavailable -> "conflict"
      [] res.error = "Payment failed. Booking not created." -> "external service"
      [] res.error = "Error creating booking." -> "persistence"

\* C20: two requests that failed for reasons of different kinds (validation,
\* venue not found, venue unavailable, payment failure, persistence failure)
\* were answered with different status and error.
C20_FailureKindTold ==
    \A r1 \in Requests : \A r2 \in Requests :
        (/\ pc[r1] = "done" /\ result[r1].status # 201
         /\ pc[r2] = "done" /\ result[r2].status # 201
         /\ FailureKind(result[r1]) # FailureKind(result[r2]))
        => <<result[r1].status, result[r1].error>> # <<result[r2].status, result[r2].error>>

\* C24: createBooking runs the availability check, the venue lookup, the
\* payment and then the three writes in this order; a request has written no
\* Event, VenueBooking or Payment while its payment has not succeeded, and
\* the payment step either succeeds or ends the call with the payment error
\* and nothing written.
C24_PaymentBeforeWrites ==
    /\ [](\A r \in Requests :
            pc[r] \in {"idle", "getVenueById", "findMany", "findUnique", "simulatePayment"}
                => ~Owns(r))
    /\ [](\A r \in Requests :
            result[r].error = "Payment failed. Booking not created." => ~Owns(r))
    /\ [][\A r \in Requests :
            pc'[r] # pc[r] =>
                \/ <<pc[r], pc'[r]>> \in
                        { <<"idle", "getVenueById">>, <<"getVenueById", "findMany">>,
                          <<"findMany", "findUnique">>, <<"findUnique", "simulatePayment">>,
                          <<"simulatePayment", "eventCreate">>,
                          <<"eventCreate", "venueBookingCreate">>,
                          <<"venueBookingCreate", "paymentCreate">> }
                \/ /\ pc'[r] = "done"
                   /\ pc[r] = "simulatePayment"
                        => /\ result'[r].error = "Payment failed. Booking not created."
                           /\ events' = events
                           /\ venueBookings' = venueBookings
                           /\ payments' = payments]_vars

\* C24 witness: the payment of request 1 has succeeded and its first write
\* is pending, with nothing written yet; request 2 is still at its
\* availability check.
C24_Witness ==
    /\ pc[1] = "eventCreate"
    /\ pc[2] = "findMany"
    /\ events = {} /\ venueBookings = {} /\ payments = {}

----------------------------------------------------------------------------
(* Claims about checkAvailability and searchVenues *)

\* C6: with valid dates, checkAvailability resolves to true exactly when no
\* stored booking of that venue has startDate <= the query's endDate and
\* endDate >= the query's startDate; bookings of other venues do not count.
C6_AvailableIffNoOverlap ==
    (/\ query.op = "checkAvailability"
     /\ query.startDate # NaN
     /\ query.endDate # NaN)
    => /\ answer.value \in {"true", "false"}
       /\ answer.value = "true" <=>
            ~\E b \in venueBookings :
                /\ b.venueId = query.venueId
                /\ Val(b.startDate) <= Val(query.endDate)
                /\ Val(b.endDate) >= Val(query.startDate)

\* C6 witness: venue 1 is booked 1 Jan - 3 Jan, venue 2 from 3 Jan; venue 1 is
\* asked for 3 Jan - 4 Jan 12:00 and is not available, and venue 3, asked for
\* the same days beside them, would be.
C6_Witness ==
    /\ query.op = "checkAvailability"
    /\ query.venueId = 1
    /\ query.startDate = Day(2) /\ query.endDate = HalfDay(7)
    /\ {b.id : b \in venueBookings} = {1, 2}
    /\ answer.value = "false"
    /\ checkAvailability(venueBookings, 3, query.startDate, query.endDate) = "true"

Returned == {answer.venues[i].venue : i \in DOMAIN answer.venues}

\* C7: for every budget B passed to searchVenues, B = 0 included, no returned
\* venue has pricePerDay > B.
C7_WithinBudget ==
    (/\ query.op = "searchVenues"
     /\ answer.ok
     /\ query.filters.budget # Undefined)
    => \A v \in Returned : v.pricePerDay <= Val(query.filters.budget)

\* C8: when the location geocodes to coordinates, every returned venue lies
\* at a great-circle distance of at most the radius (10 km by default) from
\* them.
C8_WithinRadius ==
    (/\ query.op = "searchVenues"
     /\ answer.ok
     /\ geocodeLocation(query.filters.location) # << >>)
    => LET at == geocodeLocation(query.filters.location)[1]
           km == IF query.filters.radius = Undefined THEN 10 ELSE Val(query.filters.radius)
       IN  \A v \in Returned :
              GreatCircle[<<at.latitude, at.longitude>>, <<v.latitude, v.longitude>>]
                  <= km * 1000

\* C8 witness: the first page of three around Helsinki holds venues 1, 3 and
\* 2; venue 3 is 12.97 km away, and venues 1 and 2 are returned.
C8_Witness ==
    /\ query.op = "searchVenues"
    /\ query.filters.location = "Helsinki"
    /\ query.filters.radius = Undefined
    /\ query.page = 1 /\ query.limit = 3
    /\ answer.ok
    /\ {v.id : v \in Returned} = {1, 2}

Abs(n) == IF n < 0 THEN -n ELSE n

\* The venues the budget and capacity conditions of the last search select
MatchingBudgetCapacity ==
    {i \in DOMAIN Venues : WhereBudgetCapacity(query.filters, Venues[i])}

C10_NoLocationReturnsPage ==
    (/\ query.op = "searchVenues"
     /\ answer.ok
     /\ query.filters.location = "")
    => LET matching == SelectSeq(Venues, LAMBDA v : WhereBudgetCapacity(query.filters, v))
           skip == (query.page - 1) * query.limit
           last == IF skip + query.limit < Len(matching)
                   THEN skip + query.limit ELSE Len(matching)
       IN  [i \in DOMAIN answer.venues |-> answer.venues[i].venue]
               = SubSeq(matching, skip + 1, last)

C12_IsAvailableFlag ==
    (query.op = "searchVenues" /\ answer.ok)
    => \A i \in DOMAIN answer.venues :
          LET v == answer.venues[i].venue
              from == NewDate(query.filters.startDate)
              to == NewDate(query.filters.endDate)
          IN  IF query.filters.startDate # "" /\ query.filters.endDate # ""
              THEN /\ answer.venues[i].isAvailable <=>
                        ~\E b \in venueBookings :
                            /\ b.venueId = v.id
                            /\ Val(b.startDate) <= Val(to)
                            /\ Val(b.endDate) >= Val(from)
                   /\ answer.venues[i].isAvailable <=>
                        (checkAvailability(venueBookings, v.id, from, to) = "true")
              ELSE answer.venues[i].isAvailable

\* C12 witness: venue 1 alone is booked 1 Jan - 3 Jan; a search around
\* Helsinki for 1 Jan - 3 Jan returns venue 1 as not available and venue 2 as
\* available.
C12_Witness ==
    /\ query.op = "searchVenues"
    /\ query.filters.location = "Helsinki"
    /\ query.filters.startDate = "2025-01-01" /\ query.filters.endDate = "2025-01-03"
    /\ {b.id : b \in venueBookings} = {1}
    /\ answer.ok
    /\ \E i \in DOMAIN answer.venues :
          answer.venues[i].venue.id = 1 /\ ~answer.venues[i].isAvailable
    /\ \E i \in DOMAIN answer.venues :
          answer.venues[i].venue.id = 2 /\ answer.venues[i].isAvailable

----------------------------------------------------------------------------
(* Claims about mapServiceToValue *)

NoneLabels == {"none", "None", "NONE"}
StandardLabels == {"standard", "Standard", "STANDARD"}
PremiumLabels == {"premium", "Premium", "PREMIUM", "pReMiUm"}

\* C13: for each of the four services, a label none, standard or premium in
\* any letter case is mapped to the number of the table: catering 0/100/200,
\* decoration 0/50/150, photography 0/75/175, music 0/60/120.
C13_TierTable ==
    query.op = "mapServiceToValue"
    => LET table == [catering    |-> <<0, 100, 200>>,
                     decoration  |-> <<0, 50, 150>>,
                     photography |-> <<0, 75, 175>>,
                     music       |-> <<0, 60, 120>>]
       IN  \A k \in ServiceKeys :
            LET label == query.services[k]
                cost == answer.serviceCosts[k]
            IN  /\ label \in NoneLabels
                      => cost.typeof = "number" /\ cost.value = table[k][1]
                /\ label \in StandardLabels
                      => cost.typeof = "number" /\ cost.value = table[k][2]
                /\ label \in PremiumLabels
                      => cost.typeof = "number" /\ cost.value = table[k][3]

\* C13 witness: catering "PREMIUM", decoration "Standard", photography
\* "pReMiUm" and music "NONE" cost 200, 50, 175 and 0.
C13_Witness ==
    /\ query.op = "mapServiceToValue"
    /\ query.services = [catering |-> "PREMIUM", decoration |-> "Standard",
                         photography |-> "pReMiUm", music |-> "NONE"]
    /\ [k \in ServiceKeys |-> answer.serviceCosts[k].value]
          = [catering |-> 200, decoration |-> 50, photography |-> 175, music |-> 0]
    /\ answer.servicesCost = Num(425)

\* C14: for each service, a label that is not none, standard or premium in
\* any letter case is mapped to the number 0, so the four costs add up to the
\* number they add up to with that label replaced by "none".
C14_UnknownTierIsZero ==
    query.op = "mapServiceToValue"
    => LET known == NoneLabels \cup StandardLabels \cup PremiumLabels
           asNone == [k \in ServiceKeys |->
                        IF query.services[k] \in known THEN query.services[k] ELSE "none"]
       IN  /\ \A k \in ServiceKeys :
                query.services[k] \notin known
                    => answer.serviceCosts[k] = [typeof |-> "number", value |-> 0]
           /\ answer.servicesCost # NaN
           /\ answer.servicesCost = ServicesCost(ServiceCosts(asNone))

\* C21: a search with a location for which the geocoder has no result, or
\* which the geocoder fails on, throws: it resolves to no venue list and no
\* pagination, whatever the other filters, the page and the stored bookings.
C21_NoGeocodeNoResult ==
    (/\ query.op = "searchVenues"
     /\ query.filters.location \notin {"", "Helsinki", "0, 25"})
    => /\ ~answer.ok
       /\ DOMAIN answer = {"op", "ok"}

\* C21 witness: a search for venues in "Atlantis" with no other filter on a
\* database holding bookings has failed.
C21_Witness ==
    /\ query.op = "searchVenues"
    /\ query.filters.location = "Atlantis"
    /\ query.filters.budget = Undefined /\ query.filters.capacity = Undefined
    /\ query.filters.startDate = ""
    /\ venueBookings # {}
    /\ answer = [op |-> "searchVenues", ok |-> FALSE]

----------------------------------------------------------------------------
(* Claims about createVenue and updateVenue *)

\* C22: every stored venue has latitude and longitude both present or both
\* absent, after any sequence of createVenue and updateVenue calls; and a
\* createVenue whose location the geocoder cannot resolve fails and stores
\* no venue.
C22_CoordinatesTogether ==
    /\ [](\A i \in DOMAIN venueColl :
            (venueColl[i].latitude = << >>) <=> (venueColl[i].longitude = << >>))
    /\ [][(/\ query'.op = "createVenue"
           /\ query'.location \notin {"Helsinki", "0, 25"})
          => /\ venueColl' = venueColl
             /\ ~answer'.ok]_vars

\* C22 witness: a venue created in Helsinki was moved to "Atlantis" by
\* updateVenue and keeps both coordinates of Helsinki; a createVenue in
\* "Atlantis" has then failed and the venue is still the only one.
C22_Witness ==
    /\ Len(venueColl) = 1
    /\ venueColl[1].location = "Atlantis"
    /\ venueColl[1].latitude = Num(60000) /\ venueColl[1].longitude = Num(25000)
    /\ query.op = "createVenue"
    /\ query.location = "Atlantis"
    /\ ~answer.ok

\* C23: checkAvailability called with a startDate or an endDate that is no
\* valid date rejects, resolving neither to true nor to false; and a
\* createBooking called with such a date returns an error and writes no
\* Event, VenueBooking or Payment.
C23_InvalidDateRejected ==
    /\ (/\ query.op = "checkAvailability"
        /\ (query.startDate = << >> \/ query.endDate = << >>))
       => answer.value = "throws"
    /\ (/\ query.op = "createBooking"
        /\ (query.startDate = << >> \/ query.endDate = << >>))
       => /\ answer.error # ""
          /\ \A e \in events : e.date # << >>
          /\ \A b \in venueBookings : b.startDate # << >> /\ b.endDate # << >>
          /\ \A b \in venueBookings : b.id \in {1, 2, 3, 4, 5}
          /\ \A e \in events : e.id \in {1, 2, 3, 4, 5}
          /\ \A p \in payments : p.id \in {1, 2, 3, 4, 5}

\* C23 witness: createBooking for venue 1 with a start date that is no date
\* and a total cost of 500 has returned "Error creating booking." on an
\* empty database, which is still empty.
C23_Witness ==
    /\ query.op = "createBooking"
    /\ query.venueId = 1
    /\ query.startDate = << >>
    /\ answer.error = "Error creating booking."
    /\ events = {} /\ venueBookings = {} /\ payments = {}

\* C25: a stored booking of the venue whose range overlaps the query makes
\* checkAvailability resolve to false whatever its status, CANCELED and
\* PENDING included, and a createBooking of that venue for that range is
\* answered with the venue-unavailable error and writes nothing.
C25_EveryStatusBlocks ==
    LET blocked ==
            /\ query.op \in {"checkAvailability", "createBooking"}
            /\ query.startDate # << >> /\ query.endDate # << >>
            /\ \E b \in venueBookings :
                    /\ b.id \in {1, 2, 3, 4, 5}
                    /\ b.venueId = query.venueId
                    /\ b.status \in {"PENDING", "CONFIRMED", "CANCELED"}
                    /\ Val(b.startDate) <= Val(query.endDate)
                    /\ Val(b.endDate) >= Val(query.startDate)
    IN  /\ (blocked /\ query.op = "checkAvailability") => answer.value = "false"
        /\ (blocked /\ query.op = "createBooking")
              => /\ answer.error \in
                        {"Venue is not available for the selected time slot",
                         "Invalid totalCost provided. It must be a valid number."}
                 /\ ~\E b \in venueBookings : b.id = 6
                 /\ ~\E e \in events : e.id = 6
                 /\ ~\E p \in payments : p.id = 6

\* C25 witness: the only stored booking is the CANCELED one of venue 3 for
\* 1 Jan - 3 Jan; createBooking of venue 3 for 1 Jan - 3 Jan with a total of
\* 500 was answered with the venue-unavailable error.
C25_Witness ==
    /\ {b.status : b \in venueBookings} = {"CANCELED"}
    /\ query.op = "createBooking"
    /\ query.venueId = 3
    /\ query.startDate = Day(0) /\ query.endDate = Day(2)
    /\ answer.error = "Venue is not available for the selected time slot"
    /\ Cardinality(venueBookings) = 1

----------------------------------------------------------------------------
(* Claims about bookTicket *)

RECURSIVE SumTicketCount(_)
SumTicketCount(bookings) ==
    IF bookings = {}
    THEN 0
    ELSE LET b == CHOOSE x \in bookings : TRUE
         IN  b.ticketCount + SumTicketCount(bookings \ {b})

\* The ticket bookings created for a seat type
BookingsOf(seatType) == {b \in ticketBookings : b.seatType = seatType}

\* C26: for every seat type, availableSeats stays between 0 and its initial
\* value and the ticketCounts of the bookings created for the seat type add
\* up to at most the initial availableSeats, under every interleaving and
\* for every ticketCount, zero and negative ones included.
C26_NoOversell ==
    \A t \in DOMAIN InitialSeats :
        /\ ticketPrices[t] >= 0
        /\ ticketPrices[t] <= InitialSeats[t]
        /\ SumTicketCount(BookingsOf(t)) <= InitialSeats[t]

\* C27: once every started request has answered, for every seat type the
\* initial availableSeats minus the current availableSeats is the sum of
\* ticketCount over the bookings created for the seat type.
C27_NoLostDecrement ==
    (\A r \in Requests : tpc[r] \in {"idle", "done"})
    => \A t \in DOMAIN InitialSeats :
          InitialSeats[t] - ticketPrices[t] = SumTicketCount(BookingsOf(t))

----------------------------------------------------------------------------
(* Claims about createOrder and verifyPayment *)

BookingWithId(id) == CHOOSE b \in ticketBookings : b.id = id

\* verifyPayment answered user r with success
Verified(r) ==
    /\ tpc[r] = "done"
    /\ tlocal[r].orderId # 0
    /\ tlocal[r].status = 200

\* C28: a verifyPayment that succeeded confirmed the ticket booking that
\* createOrder created together with the order verified, whatever other
\* users ordered in between; the booking it returns is that one.
C28_ConfirmsOwnOrder ==
    \A r \in Requests :
        Verified(r) =>
            /\ tlocal[r].confirmed = tlocal[r].bookingId
            /\ BookingWithId(tlocal[r].bookingId).status = "CONFIRMED"

\* C29: a CONFIRMED ticket booking has a COMPLETED payment, in every state of
\* the Razorpay flow; and a verifyPayment answered with 400 (the signature
\* does not match) leaves every payment and every ticket booking as it was.
C29_ConfirmedIsPaid ==
    /\ [](\A b \in ticketBookings :
            b.status = "CONFIRMED" => ticketPayments[b.paymentId].status = "COMPLETED")
    /\ [][\A r \in Requests :
            (tpc[r] = "ordered" /\ tpc'[r] = "done" /\ tlocal'[r].status = 400)
            => /\ ticketPayments' = ticketPayments
               /\ ticketBookings' = ticketBookings]_vars

\* One user's booking is confirmed and paid, and another user's verifyPayment
\* was refused for its signature.
C29_Witness ==
    /\ \E b \in ticketBookings : b.status = "CONFIRMED"
    /\ \E r \in Requests : tpc[r] = "done" /\ tlocal[r].status = 400
                           /\ tlocal[r].orderId # 0

----------------------------------------------------------------------------
(* Claims about the password reset *)

\* resetPassword of request r succeeds in this step
ResetSucceeds(r) ==
    /\ apc[r] = "resetUpdate"
    /\ apc'[r] = "done"
    /\ alocal'[r].success

\* C30: a resetPassword succeeds only with the token the user's record holds,
\* which is the one the latest forgotPassword stored and no reset has used,
\* and before the expiry stored with it.
C30_TokenSingleUseAndTimed ==
    [][\A r \in Requests :
        ResetSucceeds(r) =>
            /\ alocal[r].token # Undefined
            /\ user.resetToken = alocal[r].token
            /\ user.resetTokenExpiry # Undefined
            /\ Val(user.resetTokenExpiry) > now]_vars

====
